---- MODULE Spec2Model ----
(***************************************************************************)
(* Upload-and-analyze workflow of the SMEPulse front end.                  *)
(*                                                                         *)
(*   App.jsx           result / loading / lang, handleAnalysis, New Scan   *)
(*   FileUploader.jsx  file / loading, handleFileChange, handleUpload      *)
(*   api.js            uploadAndAnalyze (one axios.post per call)          *)
(*                                                                         *)
(* The page is single threaded: every handler runs to its first await, and *)
(* React re-renders between two user events, so the closures a click runs  *)
(* (handleUpload, handleAnalysis) see the state of the latest render.  The *)
(* only suspension point is the await of axios.post; its continuation      *)
(* (the rest of handleAnalysis, then the rest of handleUpload) runs in     *)
(* consecutive microtasks with no user event in between.                   *)
(***************************************************************************)
EXTENDS Integers, Sequences, FiniteSets, TLC

\* ---------------------------------------------------------------- bounds
MaxRequests == 3

\* ------------------------------------------------------------ JS values
Null == [t |-> "null"]
Undefined == [t |-> "undefined"]
EmptyString == [t |-> "string", s |-> ""]
File(name) == [t |-> "file", name |-> name]

FileNames == {"statement.csv", "ledger.xlsx"}

\* What e.target.files[0] can be: a chosen file, or undefined when the
\* chooser is dismissed and the list is empty.
ChooserValues == {File(n) : n \in FileNames} \cup {Undefined}

\* financial_summary.metrics: the recognised keys, and the amounts a body
\* may give them.  A metrics object is a function on the keys it has.
MetricKeys == {"total_revenue", "net_cashflow", "total_expenses", "avg_transaction"}
Amounts == {0, 2500, -1234567}
MetricMaps == UNION {[S -> Amounts] : S \in SUBSET MetricKeys}

\* Response bodies.  score is {} when credit_readiness.score is missing;
\* Partial is {"credit_readiness":{"grade":"B"}} and has no financial_summary.
GoodB == [t |-> "object", score |-> {72}, grade |-> "B", ai_report |-> "Stable growth trend.",
          metrics |-> [total_revenue |-> 500000, net_cashflow |-> 120000,
                       total_expenses |-> 380000, avg_transaction |-> 2500]]
GoodC == [t |-> "object", score |-> {55}, grade |-> "C", ai_report |-> "Tight cashflow.",
          metrics |-> [total_revenue |-> 90000, net_cashflow |-> -1200]]
Partial == [t |-> "object", score |-> {}, grade |-> "B", ai_report |-> ""]
MetricBodies == {[GoodB EXCEPT !.metrics = m] : m \in MetricMaps}
Bodies == {GoodB, GoodC, Partial, EmptyString, Null} \cup MetricBodies

\* JavaScript truthiness, as used by `!file`, `file && ...`, `result && ...`,
\* `!result ? ... : ...` and `metrics.total_revenue || 0`.
Truthy_NotNull(v) == v.t # "null"
Truthy(v) == /\ v.t \notin {"null", "undefined", "NaN"}
             /\ ~(v.t = "string" /\ v.s = "")
             /\ ~(v.t = "number" /\ v.n = 0)

\* --------------------------------------------------------- the network
\* What the endpoint (or the transport) does with one POST.
Transport == [kind |-> "transport"]
Response(status, data) == [kind |-> "response", status |-> status, data |-> data]
Outcomes == {Transport, Response(500, EmptyString)} \cup {Response(200, b) : b \in Bodies}

\* ---------------------------------------------------------------- state
VARIABLES
    result,     \* App: useState(null)
    loading,    \* App: useState(false)
    lang,       \* App: useState('en')
    uploader,   \* the FileUploader instance: [mounted, loading, file]
    scan,       \* which FileUploader instance is (or was last) mounted
    inflight,   \* POSTs sent to /analysis/run and not yet answered
    posts,      \* number of POSTs issued so far
    alerts,     \* the alert() calls made so far, oldest first
    last        \* the event handled last

vars == <<result, loading, lang, uploader, scan, inflight, posts, alerts, last>>

Langs == {"en", "hi"}

\* FileUploader's useState initial values.
InitialUploader == [mounted |-> TRUE, loading |-> FALSE, file |-> Null]
Unmounted == [mounted |-> FALSE, loading |-> FALSE, file |-> Null]

Init ==
    /\ result = Null
    /\ loading = FALSE
    /\ lang = "en"
    /\ uploader = InitialUploader
    /\ scan = 1
    /\ inflight = {}
    /\ posts = 0
    /\ alerts = <<>>
    /\ last = [op |-> "init"]

\* ------------------------------------------------------------ rendering
\* <main>: the FileUploader element exists only while result is falsy.  An
\* instance that disappears loses its state; one that appears starts from
\* its useState initial values.
RenderUploader_Hidden(res, up) == up
RenderUploader(res, up) ==
    IF Truthy(res) THEN Unmounted
    ELSE IF up.mounted THEN up ELSE InitialUploader

\* The "Analyze <name>" button: {file && !loading && (<button .../>)}.
AnalyzeButtonRendered_NoLoading(up) == up.mounted /\ Truthy(up.file)
AnalyzeButtonRendered(up) == up.mounted /\ Truthy(up.file) /\ ~up.loading

\* {result && <button onClick={() => setResult(null)}>New Scan</button>}
NewScanRendered == Truthy(result)

\* --------------------------------------------------------------- api.js
FormData(file, businessType, language) ==
    [file |-> file, business_type |-> businessType, language |-> language]

\* axios.post resolves for a 2xx status and rejects otherwise; the function
\* returns response.data, or rethrows what it caught.
uploadAndAnalyze_Swallows(o) ==
    IF o.kind = "response" /\ o.status >= 200 /\ o.status < 300
    THEN [ok |-> TRUE, data |-> o.data]
    ELSE [ok |-> TRUE, data |-> Undefined]
uploadAndAnalyze(o) ==
    IF o.kind = "response" /\ o.status >= 200 /\ o.status < 300
    THEN [ok |-> TRUE, data |-> o.data]
    ELSE [ok |-> FALSE, error |-> o]

\* handleAnalysis: uploadAndAnalyze(file, "Retail", lang)
AnalysisRequest_DefaultLang(file, l) == FormData(file, "Retail", "en")
AnalysisRequest(file, l) == FormData(file, "Retail", l)

\* --------------------------------------------------------- MetricsGrid
\* JS numbers as far as the cards need them.
Num(n) == [t |-> "number", n |-> n]
NaN == [t |-> "NaN"]

\* metrics.key: the amount, or undefined when the key is missing.
Member(metrics, k) == IF k \in DOMAIN metrics THEN Num(metrics[k]) ELSE Undefined

\* a || b
Or(a, b) == IF Truthy(a) THEN a ELSE b

\* Number(value)
Number(v) == IF v.t = "number" THEN v ELSE NaN

\* The locales toLocaleString() may run under: groups of three digits, or
\* the Indian grouping (three digits, then groups of two).
Locales == {"en-US", "en-IN"}

RECURSIVE GroupsBy(_, _)
GroupsBy(n, radix) ==
    IF n < radix THEN <<n>> ELSE Append(GroupsBy(n \div radix, radix), n % radix)

\* The digit groups of a natural number, most significant first.
DigitGroups(n, locale) ==
    IF n < 1000 THEN <<n>>
    ELSE Append(GroupsBy(n \div 1000, IF locale = "en-IN" THEN 100 ELSE 1000), n % 1000)

\* value.toLocaleString(): "NaN", or a sign and comma-separated groups.
toLocaleString(v, locale) ==
    IF v.t = "NaN" THEN [nan |-> TRUE, negative |-> FALSE, groups |-> <<>>]
    ELSE [nan |-> FALSE, negative |-> v.n < 0,
          groups |-> DigitGroups(IF v.n < 0 THEN -v.n ELSE v.n, locale)]

\* <MetricCard value={...}/>: the text after the currency sign.
MetricCard(value, locale) == toLocaleString(Number(value), locale)

\* The four cards of <MetricsGrid metrics={...}/>, by the key each shows.
MetricsGrid_NoDefault(metrics, locale) ==
    [k \in MetricKeys |-> MetricCard(Member(metrics, k), locale)]
MetricsGrid(metrics, locale) ==
    [k \in MetricKeys |-> MetricCard(Or(Member(metrics, k), Num(0)), locale)]

\* -------------------------------------------------------------- actions
\* <input type="file" onChange={handleFileChange}>: rendered, and active,
\* whenever the uploader is mounted, also while it is loading.
handleFileChange_StopsLoading(f) ==
    /\ uploader.mounted
    /\ uploader' = [uploader EXCEPT !.file = f, !.loading = FALSE]
    /\ last' = [op |-> "select", file |-> f]
    /\ UNCHANGED <<result, loading, lang, scan, inflight, posts, alerts>>
handleFileChange(f) ==
    /\ uploader.mounted
    /\ uploader' = [uploader EXCEPT !.file = f]
    /\ last' = [op |-> "select", file |-> f]
    /\ UNCHANGED <<result, loading, lang, scan, inflight, posts, alerts>>

\* A click on the Analyze button: handleUpload up to the await inside
\* uploadAndAnalyze.
handleUpload ==
    /\ AnalyzeButtonRendered(uploader)
    /\ Truthy(uploader.file)                 \* if (!file) return;
    /\ posts < MaxRequests
    /\ LET req == [id |-> posts + 1, scan |-> scan,
                   form |-> AnalysisRequest(uploader.file, lang)]
       IN /\ uploader' = [uploader EXCEPT !.loading = TRUE]
          /\ loading' = TRUE
          /\ inflight' = inflight \cup {req}
          /\ posts' = posts + 1
          /\ last' = [op |-> "submit", req |-> req]
    /\ UNCHANGED <<result, lang, scan, alerts>>

\* The EN / hindi buttons.
setLang_Resend(l) ==
    /\ lang' = l
    /\ inflight' = {[r EXCEPT !.form.language = l] : r \in inflight}
    /\ last' = [op |-> "lang", lang |-> l]
    /\ UNCHANGED <<result, loading, uploader, scan, posts, alerts>>
setLang(l) ==
    /\ lang' = l
    /\ last' = [op |-> "lang", lang |-> l]
    /\ UNCHANGED <<result, loading, uploader, scan, inflight, posts, alerts>>

\* The New Scan button.
NewScan ==
    /\ NewScanRendered
    /\ result' = Null
    /\ uploader' = RenderUploader(Null, uploader)
    /\ scan' = IF uploader.mounted THEN scan ELSE scan + 1
    /\ last' = [op |-> "reset"]
    /\ UNCHANGED <<loading, lang, inflight, posts, alerts>>

\* handleUpload after the await: finally { setLoading(false) }.  It acts on
\* the instance that started the request; on an instance that is gone it
\* does nothing.  The selected file is not touched on either path.
handleUploadFinally_ClearsFile(up, r) ==
    IF up.mounted /\ r.scan = scan
    THEN [up EXCEPT !.loading = FALSE, !.file = Null]
    ELSE up
handleUploadFinally(up, r) ==
    IF up.mounted /\ r.scan = scan
    THEN [up EXCEPT !.loading = FALSE]
    ELSE up

\* handleAnalysis after the await: setResult(data) on success; on failure the
\* catch raises one alert and does not rethrow, so the promise handed to
\* handleUpload is fulfilled either way.  Nothing is sent again.
handleAnalysisSettled_Rethrows(r, ret) ==
    [alerts   |-> IF ret.ok THEN <<>>
                  ELSE <<[req |-> r.id, by |-> "App", err |-> ret.error,
                          msg |-> "Error connecting to backend. See console."]>>,
     rejected |-> ~ret.ok,
     resent   |-> {}]
handleAnalysisSettled_Retries(r, ret) ==
    [alerts   |-> IF ret.ok THEN <<>>
                  ELSE <<[req |-> r.id, by |-> "App", err |-> ret.error,
                          msg |-> "Error connecting to backend. See console."]>>,
     rejected |-> FALSE,
     resent   |-> IF ret.ok THEN {} ELSE {r}]
handleAnalysisSettled(r, ret) ==
    [alerts   |-> IF ret.ok THEN <<>>
                  ELSE <<[req |-> r.id, by |-> "App", err |-> ret.error,
                          msg |-> "Error connecting to backend. See console."]>>,
     rejected |-> FALSE,
     resent   |-> {}]

\* handleUpload's catch: taken only when onUploadSuccess(file) rejects.
handleUploadCatch(r, ha) ==
    IF ha.rejected
    THEN <<[req |-> r.id, by |-> "FileUploader", err |-> Undefined,
            msg |-> "Upload failed. Check console."]>>
    ELSE <<>>

\* The answer to request r arrives: the rest of uploadAndAnalyze, then of
\* handleAnalysis (setResult or alert, finally setLoading(false)), then of
\* handleUpload (finally setLoading(false) on the instance that started it).
Settle(r, o) ==
    /\ r \in inflight
    /\ LET ret == uploadAndAnalyze(o)
           ha  == handleAnalysisSettled(r, ret)
           res == IF ret.ok THEN ret.data ELSE result
           up1 == handleUploadFinally(uploader, r)
       IN /\ result' = res
          /\ alerts' = alerts \o ha.alerts \o handleUploadCatch(r, ha)
          /\ uploader' = RenderUploader(res, up1)
          /\ inflight' = (inflight \ {r}) \cup ha.resent
          /\ posts' = posts + Cardinality(ha.resent)
    /\ loading' = FALSE
    /\ last' = [op |-> "settle", req |-> r, outcome |-> o, fileBefore |-> uploader.file]
    /\ UNCHANGED <<lang, scan>>

Next ==
    \/ \E f \in ChooserValues : handleFileChange(f)
    \/ handleUpload
    \/ \E l \in Langs : setLang(l)
    \/ NewScan
    \/ \E r \in inflight, o \in Outcomes : Settle(r, o)

Spec == Init /\ [][Next]_vars

\* ------------------------------------------------- the workflow's states
\* The states of the upload workflow, read off the component state.
Submitting == loading \/ uploader.loading
Succeeded == Truthy(result) /\ ~uploader.mounted
\* The latest request was reported to the user as failed and nothing has
\* been submitted since.
Failed ==
    /\ ~Truthy(result) /\ ~Submitting
    /\ Len(alerts) > 0 /\ alerts[Len(alerts)].req = posts
NoFileSelected == ~uploader.mounted \/ uploader.file \in {Null, Undefined}
Idle == ~Truthy(result) /\ ~Submitting /\ ~Failed /\ uploader.mounted /\ NoFileSelected

\* The shape the result view reads (result.credit_readiness.score), as far
\* as bodies are modelled: an object that has credit_readiness.score.
MatchesAnalysisResult(v) == v.t = "object" /\ v.score # {}

JustSettled == last.op = "settle"
JustResolved == JustSettled /\ uploadAndAnalyze(last.outcome).ok
JustRejected == JustSettled /\ ~uploadAndAnalyze(last.outcome).ok

\* ---------------------------------------------------------------- C1
\* C1: once the client call of an accepted submit has resolved (with a body
\* of any value, or with a rejection) the workflow is in exactly one of
\* Succeeded or Failed and both loading flags are false.
C1_AsClaimed ==
    JustSettled =>
        /\ ~loading /\ ~uploader.loading
        /\ (Succeeded /\ ~Failed) \/ (Failed /\ ~Succeeded)

\* ---------------------------------------------------------------- C2
\* C2: at most one analysis request is in flight in every reachable state;
\* while one is, the Analyze button is not there to take a second submit.
C2_SingleFlight ==
    /\ Cardinality(inflight) <= 1
    /\ inflight # {} => ~AnalyzeButtonRendered(uploader)

\* A request is in flight and the user has just picked a file: a second
\* submit is what would be attempted here.
C2_Witness ==
    /\ Cardinality(inflight) = 1
    /\ last.op = "select" /\ uploader.file.t = "file"

\* ---------------------------------------------------------------- C3
\* C3: every request that is sent carries a selected file; none is sent
\* with a null or undefined file.
C3_RequestHasFile == \A r \in inflight : r.form.file.t = "file"

\* The chooser was dismissed (files[0] is undefined) after a request had
\* already gone out with a file: no Analyze button, nothing in flight.
C3_Witness ==
    /\ last.op = "select" /\ uploader.file = Undefined
    /\ posts > 0 /\ inflight = {}
    /\ ~AnalyzeButtonRendered(uploader)

\* ---------------------------------------------------------------- C4
\* C4: a success status with a body that does not match the AnalysisResult
\* shape moves the workflow to Failed, and the result slot never holds it.
C4_AsClaimed ==
    /\ (JustResolved /\ ~MatchesAnalysisResult(last.outcome.data))
          => (Failed /\ result # last.outcome.data)
    /\ result = Null \/ MatchesAnalysisResult(result)

C6_AsClaimed ==
    JustRejected =>
        /\ uploader.file = last.req.form.file
        /\ AnalyzeButtonRendered(uploader)

\* C6 amended: a failed call leaves the selected file exactly as it was
\* when the failure arrived (the submitted file unless another was chosen
\* during the wait), the uploader stays mounted and stops loading, and the
\* Analyze button is back whenever a file is selected.
C6_FailureKeepsFile ==
    JustRejected =>
        /\ uploader.mounted /\ ~uploader.loading
        /\ uploader.file = last.fileBefore
        /\ uploader.file.t = "file" => AnalyzeButtonRendered(uploader)

\* A request just failed and its file is still the selected one.
C6_Witness ==
    /\ JustRejected
    /\ uploader.file = last.req.form.file
    /\ AnalyzeButtonRendered(uploader)

\* ---------------------------------------------------------------- C7
\* C7: when the client call succeeds the workflow is Succeeded, the result
\* slot holds the value returned for that request and no file is selected.
C7_AsClaimed ==
    JustResolved =>
        /\ Succeeded
        /\ result = last.outcome.data
        /\ NoFileSelected

\* ---------------------------------------------------------------- C8
\* C8: what the workflow records for a failure distinguishes the kinds: two
\* failures of different kinds are never recorded alike.
FailureKind(err) == IF err.kind = "transport" THEN "TransportError" ELSE "ServerError"
C8_AsClaimed ==
    \A i, j \in 1..Len(alerts) :
        FailureKind(alerts[i].err) # FailureKind(alerts[j].err)
            => alerts[i].msg # alerts[j].msg

\* ---------------------------------------------------------------- C9
\* C9: a request carries the language of the toggle at the moment of the
\* submit, business_type "Retail" and the file selected at that moment.
C9_RequestFields ==
    last.op = "submit" =>
        /\ last.req.form.language = lang
        /\ last.req.form.business_type = "Retail"
        /\ last.req.form.file = uploader.file
        /\ last.req \in inflight

\* A submit in "hi" after an earlier request that failed.
C9_Witness ==
    /\ last.op = "submit" /\ last.req.form.language = "hi"
    /\ posts >= 2 /\ Len(alerts) >= 1

\* ---------------------------------------------------------------- C10
\* C10: a language toggle while a request is in flight changes neither the
\* in-flight request, the number of requests issued, the selected file nor
\* the loading flags; a request issued later carries the toggle's value.
C10_ToggleFrame ==
    [][ /\ (last'.op = "lang" /\ inflight # {}) =>
              /\ inflight' = inflight
              /\ posts' = posts
              /\ uploader' = uploader
              /\ loading' = loading /\ Submitting'
              /\ result' = result
        /\ posts' > posts =>
              \E r \in inflight' \ inflight : r.form.language = lang'
      ]_vars

\* The toggle was moved during the wait: the request in flight still has
\* the language it was sent with.
C10_Witness ==
    /\ last.op = "lang" /\ inflight # {}
    /\ \E r \in inflight : r.form.language # lang

\* ---------------------------------------------------------------- C11
\* C11 as stated: the selected file cannot be changed in Submitting, so
\* while a request is in flight the selected file is the file submitted.
C11_AsClaimed == \A r \in inflight : uploader.file = r.form.file

\* C11 amended: a file selection takes effect whenever the upload view is
\* shown (Idle, FileSelected, Submitting or Failed; never in Succeeded): it
\* replaces the selected file and nothing else.  In Submitting it changes
\* neither the request in flight, which keeps the file it was sent with,
\* nor the loading flags, nor the number of requests.
C11_SelectFrame ==
    [][ last'.op = "select" =>
          /\ uploader.mounted /\ ~Succeeded
          /\ uploader'.file = last'.file
          /\ uploader'.loading = uploader.loading /\ uploader'.mounted
          /\ loading' = loading
          /\ inflight' = inflight /\ posts' = posts
          /\ result' = result /\ alerts' = alerts
      ]_vars

\* Another file was chosen during the wait: the request in flight still
\* carries the file it was sent with.
C11_Witness ==
    /\ last.op = "select" /\ uploader.file.t = "file"
    /\ uploader.loading
    /\ \E r \in inflight : r.form.file.t = "file" /\ r.form.file # uploader.file

\* ---------------------------------------------------------------- C12
\* C12: the number of POSTs grows by exactly one with every accepted submit
\* and with nothing else; the arrival of an answer, failures included, sends
\* nothing and leaves no request in flight for the settled call.
C12_OnePostPerSubmit ==
    [][ /\ last'.op = "submit" => (posts' = posts + 1 /\ Cardinality(inflight' \ inflight) = 1)
        /\ last'.op # "submit" => (posts' = posts /\ inflight' \subseteq inflight)
        /\ last'.op = "settle" => last'.req \notin inflight'
      ]_vars

\* A second request failed as well: two submits, two POSTs, none pending.
C12_Witness == JustRejected /\ posts = 2 /\ Len(alerts) = 2 /\ inflight = {}

\* ---------------------------------------------------------------- C13
\* C13: a transport failure or a non-success status always reaches the
\* caller as a failure carrying that error (the caller's catch runs and the
\* result slot is left alone); a value is returned, and stored, only for a
\* successful response and is that response's body.
IsSuccessResponse(o) == o.kind = "response" /\ o.status = 200
C13_NoSwallow ==
    JustSettled =>
        IF IsSuccessResponse(last.outcome)
        THEN /\ result = last.outcome.data
             /\ \A i \in 1..Len(alerts) : alerts[i].req # last.req.id
        ELSE /\ Len(alerts) > 0
             /\ alerts[Len(alerts)].req = last.req.id
             /\ alerts[Len(alerts)].err = last.outcome
             /\ ~Truthy(result)

\* A call just failed with HTTP 500 after an earlier transport failure.
C13_Witness ==
    /\ JustSettled /\ last.outcome.kind = "response" /\ last.outcome.status = 500
    /\ Len(alerts) = 2 /\ alerts[1].err = Transport

\* ---------------------------------------------------------------- C14
\* The amount a card's text reads as: the groups put together again under
\* the grouping of the locale, with the sign.
RECURSIVE ReadGroups(_, _)
ReadGroups(groups, radix) ==
    IF Len(groups) = 1 THEN groups[1]
    ELSE ReadGroups(SubSeq(groups, 1, Len(groups) - 1), radix) * radix + groups[Len(groups)]
AmountShown(card, locale) ==
    LET n == IF Len(card.groups) = 1 THEN card.groups[1]
             ELSE ReadGroups(SubSeq(card.groups, 1, Len(card.groups) - 1),
                             IF locale = "en-IN" THEN 100 ELSE 1000) * 1000
                  + card.groups[Len(card.groups)]
    IN IF card.negative THEN -n ELSE n

\* C14: for every subset of the recognised metric keys present in the result
\* on display, the card of a missing key shows the amount zero and the card
\* of a present key shows the amount the server sent.
C14_MetricsDisplayed ==
    (Succeeded /\ "metrics" \in DOMAIN result) =>
        \A locale \in Locales, k \in MetricKeys :
            LET card == MetricsGrid(result.metrics, locale)[k]
            IN /\ ~card.nan
               /\ AmountShown(card, locale) =
                     IF k \in DOMAIN result.metrics THEN result.metrics[k] ELSE 0

\* A result on display that lacks two keys, has one at zero and one negative
\* amount with more than one digit group.
C14_Witness ==
    /\ Succeeded /\ "metrics" \in DOMAIN result
    /\ DOMAIN result.metrics = {"total_revenue", "net_cashflow"}
    /\ result.metrics["total_revenue"] = 0
    /\ result.metrics["net_cashflow"] = -1234567
    /\ MetricsGrid(result.metrics, "en-IN")["net_cashflow"].groups = <<12, 34, 567>>

\* ---------------------------------------------------------------- C15
\* C15: while a request is in flight nothing is held for display in the
\* result slot and New Scan is not offered; in that time only the arrival of
\* the answer to that request writes the slot, and it arrives in the uploader
\* instance that sent it (no reset in between); a result on display came
\* from the request submitted last and stays until New Scan empties the slot.
C15_ResultBelongsToLastRequest ==
    [][ /\ inflight # {} =>
              /\ ~Truthy(result) /\ ~NewScanRendered
              /\ result' # result =>
                    /\ last'.op = "settle" /\ last'.req \in inflight
                    /\ result' = last'.outcome.data
        /\ last'.op = "settle" =>
              /\ last'.req.scan = scan /\ scan' = scan
              /\ last'.req.id = posts
        /\ Truthy(result) =>
              /\ posts' = posts
              /\ result' = result \/ (last'.op = "reset" /\ result' = Null)
      ]_vars

\* A result is on display in the second scan: it arrived after an earlier
\* New Scan, for the request submitted last.
C15_Witness ==
    /\ JustResolved /\ Succeeded
    /\ scan = 2 /\ last.req.scan = 2 /\ last.req.id = posts

\* ---------------------------------------------------------------- C16
\* C16: every failed request has exactly one alert, raised by App's
\* handleAnalysis; a request that did not fail has none, and the catch of
\* FileUploader's handleUpload never raises one.
AlertsFor(id) == {i \in 1..Len(alerts) : alerts[i].req = id}
C16_OneAlertPerFailure ==
    /\ \A i \in 1..Len(alerts) : alerts[i].by = "App"
    /\ \A id \in 1..posts : Cardinality(AlertsFor(id)) <= 1
    /\ JustRejected => Cardinality(AlertsFor(last.req.id)) = 1
    /\ JustResolved => AlertsFor(last.req.id) = {}

\* The second of two failed requests has just been reported.
C16_Witness ==
    /\ JustRejected /\ last.req.id = 2
    /\ Len(alerts) = 2 /\ alerts[1].req = 1 /\ alerts[2].req = 2

====
